---- MODULE Spec2Model ----
(***************************************************************************)
(* Prayer Cycle: the Cycle State Store (src/src/stores/prayerCycle.ts).    *)
(* Every store action is a pure operator on a store record, translated     *)
(* from the action's body, and an action of the state machine that applies *)
(* it to the store's refs.                                                  *)
(***************************************************************************)
EXTENDS Integers, Sequences, FiniteSets, TLC

(***************************************************************************)
(* Program constants                                                        *)
(***************************************************************************)
TOTAL_PRAYER_STEPS == 12

STEP_DURATION_SECONDS == 300

\* performance.now() counts milliseconds; the engine divides by 1000
MS_PER_SECOND == 1000

(***************************************************************************)
(* Bounds of the model                                                      *)
(***************************************************************************)
\* times and durations 0..MaxTime are enumerated next to the default 300
MaxTime == 1

\* how far outside 0..11 the step values handed to restoreSession reach
StepSlack == 1

\* nextStep() calls counted beyond the twelfth of an uninterrupted run
MaxExtraNext == 2

\* the longest duration handed to the Timer Engine, in half seconds
MaxHalves == 2

\* how far the clock runs, in half seconds
MaxClock == 4

\* the longest the clock advances in one step, in half seconds
MaxAdvance == 2

\* start() calls in one behaviour of the Timer Engine
MaxRuns == 2

\* how far the wall clock runs, in hours
MaxHours == 3

(***************************************************************************)
(* Values                                                                   *)
(***************************************************************************)
PrayerStatus == {"idle", "active", "paused", "transitioning", "completed"}

\* the store only carries the colour; the default is the one value enumerated
Colors == {"#2cace2"}

DeviceTypes == {"mobile", "desktop"}

UserSettings == [audioEnabled : BOOLEAN, primaryColor : Colors, deviceType : DeviceTypes]

\* an optional field of a Partial<...>: {} is undefined, {v} is the value v
Opt(S) == {{}} \cup {{v} : v \in S}

Max(a, b) == IF a >= b THEN a ELSE b

Min(a, b) == IF a <= b THEN a ELSE b

\* the numbers handed to updateTimer and restoreSession (negative, zero, positive)
TimeInputs == ((-1) .. MaxTime) \cup {STEP_DURATION_SECONDS}

\* the durations handed to setStepDuration: positive integers, as the caller validates
DurationInputs == (1 .. MaxTime) \cup {STEP_DURATION_SECONDS}

\* the step values handed to restoreSession: below 0, the two ends and the middle of 0..11, above 11
StepInputs == ((-StepSlack) .. 0) \cup {TOTAL_PRAYER_STEPS \div 2} \cup ((TOTAL_PRAYER_STEPS - 1) .. (TOTAL_PRAYER_STEPS - 1 + StepSlack))

\* Partial<UserSettings> handed to updateSettings
SettingsPartials == [audioEnabled : Opt(BOOLEAN), primaryColor : Opt(Colors), deviceType : Opt(DeviceTypes)]

\* the settings part of a snapshot handed to restoreSession
SessionSettings == {[audioEnabled |-> {FALSE}, primaryColor |-> {}, deviceType |-> {"desktop"}]}

\* Partial<PrayerCycleState> handed to restoreSession
SessionPartials == [currentStep : Opt(StepInputs), timeRemaining : Opt(TimeInputs), status : Opt(PrayerStatus), settings : Opt(SessionSettings)]

(***************************************************************************)
(* State                                                                    *)
(***************************************************************************)
VARIABLES currentStep, timeRemaining, status, settings, stepDuration, lastOp, lastArg, streak

\* the Timer Engine's fields (null is 0), the clock and the browser's pending animation frames
VARIABLES startTime, pausedTime, duration, remainingTime, animationFrameId, isRunning, isPaused, onTick, onComplete, now, pendingFrames

\* what is observed of the Timer Engine: the callbacks invoked by the last call, the
\* value it returned, the number of start() calls, the duration of the latest start(),
\* the time spent un-paused since, the latest resume override of the run (-1: none)
\* and the value of the latest tick of the run (-1: none)
VARIABLES fired, returned, run, startDuration, activeTime, overrideR, lastTick

\* the StorageService's fields, the browser's localStorage and the reading of Date.now()
VARIABLES isStorageAvailable, localStorage, memoryStorage, dateNow

\* what is observed of the StorageService: what the last load returned, and the last
\* session a saveSession call wrote with the time of the call (none after clearSession)
VARIABLES loaded, lastSave

\* src/src/App.vue: the completion handlers waiting for the audio service, and
\* how far onMounted got (0: not called, 1: waiting for the audio service, 2: done);
\* presses counts the user's events (buttons, page hidden or shown); quotaExceeded:
\* the quota of localStorage is used up, so that localStorage.setItem throws
VARIABLES inFlight, mounted, presses, quotaExceeded

storeVars == <<currentStep, timeRemaining, status, settings, stepDuration>>

storeObs == <<streak>>

timerVars == <<startTime, pausedTime, duration, remainingTime, animationFrameId, isRunning, isPaused, onTick, onComplete, now, pendingFrames>>

timerObs == <<fired, returned, run, startDuration, activeTime, overrideR, lastTick>>

storageVars == <<isStorageAvailable, localStorage, memoryStorage, dateNow>>

storageObs == <<loaded, lastSave>>

appVars == <<inFlight, mounted, presses, quotaExceeded>>

vars == <<storeVars, storeObs, timerVars, timerObs, storageVars, storageObs, appVars, lastOp, lastArg>>

\* the store's refs as one record
Store == [currentStep |-> currentStep, timeRemaining |-> timeRemaining, status |-> status, settings |-> settings, stepDuration |-> stepDuration]

\* { ...a, ...b }: the fields b defines replace those of a
Spread(a, b) == [k \in DOMAIN a |-> IF b[k] = {} THEN a[k] ELSE CHOOSE v \in b[k] : TRUE]

(***************************************************************************)
(* Store actions as operators on the store record                           *)
(***************************************************************************)
\* startCycle falling back to the default duration instead of the configured one
startCycle_defaultDuration(s) == [s EXCEPT !.currentStep = 0, !.timeRemaining = STEP_DURATION_SECONDS, !.status = "active"]

startCycle(s) == [s EXCEPT !.currentStep = 0, !.timeRemaining = s.stepDuration, !.status = "active"]

\* pauseTimer without its status guard
pauseTimer_unguarded(s) == [s EXCEPT !.status = "paused"]

pauseTimer(s) == IF s.status = "active" THEN [s EXCEPT !.status = "paused"] ELSE s

resumeTimer(s) == IF s.status = "paused" THEN [s EXCEPT !.status = "active"] ELSE s

restartCycle(s) == [s EXCEPT !.currentStep = 0, !.timeRemaining = s.stepDuration, !.status = "idle"]

completeCycle(s) == [s EXCEPT !.status = "completed", !.timeRemaining = 0]

\* nextStep with the bound of its guard off by one
nextStep_offByOne(s) ==
    IF s.currentStep < TOTAL_PRAYER_STEPS
        THEN [s EXCEPT !.currentStep = s.currentStep + 1, !.timeRemaining = s.stepDuration, !.status = "active"]
        ELSE completeCycle(s)

\* nextStep keeping the time that updateTimer wrote last
nextStep_keepsTime(s) ==
    IF s.currentStep < TOTAL_PRAYER_STEPS - 1
        THEN [s EXCEPT !.currentStep = s.currentStep + 1, !.status = "active"]
        ELSE completeCycle(s)

nextStep(s) ==
    IF s.currentStep < TOTAL_PRAYER_STEPS - 1
        THEN [s EXCEPT !.currentStep = s.currentStep + 1, !.timeRemaining = s.stepDuration, !.status = "active"]
        ELSE completeCycle(s)

\* updateTimer without the clamp
updateTimer_unclamped(s, remaining) == [s EXCEPT !.timeRemaining = remaining]

\* updateTimer advancing the step itself when the time reaches zero
updateTimer_autoAdvance(s, remaining) ==
    LET t == [s EXCEPT !.timeRemaining = Max(0, remaining)]
    IN  IF t.timeRemaining = 0 /\ t.status = "active" THEN nextStep(t) ELSE t

updateTimer(s, remaining) == [s EXCEPT !.timeRemaining = Max(0, remaining)]

completeStep(s) == nextStep(s)

updateSettings(s, newSettings) == [s EXCEPT !.settings = Spread(s.settings, newSettings)]

setStepDuration(s, seconds) ==
    LET t == [s EXCEPT !.stepDuration = seconds]
    IN  IF s.status = "idle" THEN [t EXCEPT !.timeRemaining = seconds] ELSE t

\* reset starting the cycle like startCycle does
reset_landsActive(s) == [s EXCEPT !.currentStep = 0, !.timeRemaining = s.stepDuration, !.status = "active"]

reset(s) == [s EXCEPT !.currentStep = 0, !.timeRemaining = s.stepDuration, !.status = "idle"]

\* restoreSession clamping the step only from below
restoreSession_noUpperClamp(s, sessionState) ==
    LET s1 == IF sessionState.currentStep # {}
                  THEN [s EXCEPT !.currentStep = Max(0, CHOOSE v \in sessionState.currentStep : TRUE)]
                  ELSE s
        s2 == IF sessionState.timeRemaining # {}
                  THEN [s1 EXCEPT !.timeRemaining = Max(0, CHOOSE v \in sessionState.timeRemaining : TRUE)]
                  ELSE s1
        s3 == IF sessionState.status # {}
                  THEN [s2 EXCEPT !.status = CHOOSE v \in sessionState.status : TRUE]
                  ELSE s2
    IN  IF sessionState.settings # {}
            THEN [s3 EXCEPT !.settings = Spread(s3.settings, CHOOSE v \in sessionState.settings : TRUE)]
            ELSE s3

\* restoreSession rejecting the whole snapshot when its step is out of range
restoreSession_rejectsBadStep(s, sessionState) ==
    LET bad == \E v \in sessionState.currentStep : v < 0 \/ v > TOTAL_PRAYER_STEPS - 1
        s1 == IF sessionState.currentStep # {}
                  THEN [s EXCEPT !.currentStep = CHOOSE v \in sessionState.currentStep : TRUE]
                  ELSE s
        s2 == IF sessionState.timeRemaining # {}
                  THEN [s1 EXCEPT !.timeRemaining = Max(0, CHOOSE v \in sessionState.timeRemaining : TRUE)]
                  ELSE s1
        s3 == IF sessionState.status # {}
                  THEN [s2 EXCEPT !.status = CHOOSE v \in sessionState.status : TRUE]
                  ELSE s2
    IN  IF bad THEN s
        ELSE IF sessionState.settings # {}
            THEN [s3 EXCEPT !.settings = Spread(s3.settings, CHOOSE v \in sessionState.settings : TRUE)]
            ELSE s3

restoreSession(s, sessionState) ==
    LET s1 == IF sessionState.currentStep # {}
                  THEN [s EXCEPT !.currentStep = Max(0, Min(CHOOSE v \in sessionState.currentStep : TRUE, TOTAL_PRAYER_STEPS - 1))]
                  ELSE s
        s2 == IF sessionState.timeRemaining # {}
                  THEN [s1 EXCEPT !.timeRemaining = Max(0, CHOOSE v \in sessionState.timeRemaining : TRUE)]
                  ELSE s1
        s3 == IF sessionState.status # {}
                  THEN [s2 EXCEPT !.status = CHOOSE v \in sessionState.status : TRUE]
                  ELSE s2
    IN  IF sessionState.settings # {}
            THEN [s3 EXCEPT !.settings = Spread(s3.settings, CHOOSE v \in sessionState.settings : TRUE)]
            ELSE s3

(***************************************************************************)
(* Computed getters                                                         *)
(***************************************************************************)
\* a fraction num/den with den > 0, and equality of two fractions
Frac(n, d) == [num |-> n, den |-> d]

FracEq(a, b) == a.num * b.den = b.num * a.den

\* ((completedSteps + (STEP_DURATION_SECONDS - timeRemaining) / STEP_DURATION_SECONDS) / TOTAL_PRAYER_STEPS) * 100
progressPercentage(s) ==
    LET completedSteps == s.currentStep
        currentStepProgress == Frac(STEP_DURATION_SECONDS - s.timeRemaining, STEP_DURATION_SECONDS)
    IN  Frac((completedSteps * currentStepProgress.den + currentStepProgress.num) * 100, currentStepProgress.den * TOTAL_PRAYER_STEPS)

(***************************************************************************)
(* The Timer Engine (src/src/utils/TimerService.ts).  Seconds are held in   *)
(* thousandths, so that (currentTime - startTime) / 1000 seconds is         *)
(* currentTime - startTime thousandths.  An operator takes the engine e     *)
(* (its fields, the browser's pending frames and the callbacks invoked so   *)
(* far by the running call) and the reading t of performance.now().         *)
(***************************************************************************)
HalfSecond == MS_PER_SECOND \div 2

\* the durations handed to start(): negative, zero and positive
StartDurations == {k * HalfSecond : k \in (-1) .. MaxHalves}

\* the optional remaining time handed to resume(): a time the store holds, never negative
ResumeInputs == Opt({k * HalfSecond : k \in 0 .. MaxHalves})

Timer == [startTime |-> startTime, pausedTime |-> pausedTime, duration |-> duration, remainingTime |-> remainingTime,
          animationFrameId |-> animationFrameId, isRunning |-> isRunning, isPaused |-> isPaused,
          onTick |-> onTick, onComplete |-> onComplete, pendingFrames |-> pendingFrames, fired |-> <<>>]

\* the invocation of callback cb (the one supplied to start() number of) with value v
Call(cb, of, v) == [cb |-> cb, of |-> of, value |-> v]

\* requestAnimationFrame hands out an id that is neither pending nor the one the engine holds
FreshFrameId(e) == CHOOSE i \in 1 .. (Cardinality(e.pendingFrames) + 2) : i \notin e.pendingFrames /\ i # e.animationFrameId

requestAnimationFrame(e) == LET id == FreshFrameId(e) IN [e EXCEPT !.pendingFrames = @ \cup {id}, !.animationFrameId = id]

\* if (this.animationFrameId !== null) { cancelAnimationFrame(this.animationFrameId); this.animationFrameId = null }
cancelPendingFrame(e) == IF e.animationFrameId # 0 THEN [e EXCEPT !.pendingFrames = @ \ {e.animationFrameId}, !.animationFrameId = 0] ELSE e

\* tick without the clamp at zero
tick_unclamped(e, t) ==
    IF ~e.isRunning \/ e.isPaused
        THEN e
        ELSE LET elapsed == t - e.startTime
                 e1 == [e EXCEPT !.remainingTime = e.duration - elapsed]
                 e2 == IF e1.onTick # 0 THEN [e1 EXCEPT !.fired = Append(@, Call("onTick", e1.onTick, e1.remainingTime))] ELSE e1
             IN  IF e2.remainingTime <= 0
                     THEN LET e3 == [e2 EXCEPT !.isRunning = FALSE]
                          IN  IF e3.onComplete # 0 THEN [e3 EXCEPT !.fired = Append(@, Call("onComplete", e3.onComplete, e3.remainingTime))] ELSE e3
                     ELSE requestAnimationFrame(e2)

\* tick that goes on running after it has completed
tick_keepsRunning(e, t) ==
    IF ~e.isRunning \/ e.isPaused
        THEN e
        ELSE LET elapsed == t - e.startTime
                 e1 == [e EXCEPT !.remainingTime = Max(0, e.duration - elapsed)]
                 e2 == IF e1.onTick # 0 THEN [e1 EXCEPT !.fired = Append(@, Call("onTick", e1.onTick, e1.remainingTime))] ELSE e1
                 e3 == IF e2.remainingTime <= 0 /\ e2.onComplete # 0
                           THEN [e2 EXCEPT !.fired = Append(@, Call("onComplete", e2.onComplete, e2.remainingTime))]
                           ELSE e2
             IN  requestAnimationFrame(e3)

\* tick counting frames instead of reading the clock
tick_perFrame(e, t) ==
    IF ~e.isRunning \/ e.isPaused
        THEN e
        ELSE LET e1 == [e EXCEPT !.remainingTime = Max(0, e.remainingTime - HalfSecond)]
                 e2 == IF e1.onTick # 0 THEN [e1 EXCEPT !.fired = Append(@, Call("onTick", e1.onTick, e1.remainingTime))] ELSE e1
             IN  IF e2.remainingTime <= 0
                     THEN LET e3 == [e2 EXCEPT !.isRunning = FALSE]
                          IN  IF e3.onComplete # 0 THEN [e3 EXCEPT !.fired = Append(@, Call("onComplete", e3.onComplete, e3.remainingTime))] ELSE e3
                     ELSE requestAnimationFrame(e2)

tick(e, t) ==
    IF ~e.isRunning \/ e.isPaused
        THEN e
        ELSE LET elapsed == t - e.startTime
                 e1 == [e EXCEPT !.remainingTime = Max(0, e.duration - elapsed)]
                 e2 == IF e1.onTick # 0 THEN [e1 EXCEPT !.fired = Append(@, Call("onTick", e1.onTick, e1.remainingTime))] ELSE e1
             IN  IF e2.remainingTime <= 0
                     THEN LET e3 == [e2 EXCEPT !.isRunning = FALSE]
                          IN  IF e3.onComplete # 0 THEN [e3 EXCEPT !.fired = Append(@, Call("onComplete", e3.onComplete, e3.remainingTime))] ELSE e3
                     ELSE requestAnimationFrame(e2)

\* stop leaving the scheduled frame in place
stop_noCancel(e) == [e EXCEPT !.isRunning = FALSE, !.isPaused = FALSE, !.onTick = 0, !.onComplete = 0]

stop(e) == [cancelPendingFrame([e EXCEPT !.isRunning = FALSE, !.isPaused = FALSE]) EXCEPT !.onTick = 0, !.onComplete = 0]

\* start keeping the start time of the run before
start_staleStartTime(e, d, cb, t) ==
    LET e0 == IF e.isRunning THEN stop(e) ELSE e
    IN  tick([e0 EXCEPT !.duration = d, !.remainingTime = d, !.onTick = cb, !.onComplete = cb,
                        !.isRunning = TRUE, !.isPaused = FALSE], t)

start(e, d, cb, t) ==
    LET e0 == IF e.isRunning THEN stop(e) ELSE e
    IN  tick([e0 EXCEPT !.duration = d, !.remainingTime = d, !.onTick = cb, !.onComplete = cb,
                        !.isRunning = TRUE, !.isPaused = FALSE, !.startTime = t], t)

\* pause leaving the scheduled frame in place
pause_noCancel(e, t) ==
    IF ~e.isRunning \/ e.isPaused
        THEN e
        ELSE LET elapsed == t - e.startTime
             IN  [e EXCEPT !.remainingTime = Max(0, e.duration - elapsed), !.isPaused = TRUE, !.pausedTime = t]

\* pause without its guard
pause_unguarded(e, t) ==
    LET elapsed == t - e.startTime
    IN  cancelPendingFrame([e EXCEPT !.remainingTime = Max(0, e.duration - elapsed), !.isPaused = TRUE, !.pausedTime = t])

\* the engine after pause(); pause() returns its remainingTime
pause(e, t) ==
    IF ~e.isRunning \/ e.isPaused
        THEN e
        ELSE LET elapsed == t - e.startTime
             IN  cancelPendingFrame([e EXCEPT !.remainingTime = Max(0, e.duration - elapsed), !.isPaused = TRUE, !.pausedTime = t])

\* resume leaving the start time where it was when no override is given
resume_countsPause(e, remaining, t) ==
    IF ~e.isRunning \/ ~e.isPaused
        THEN e
        ELSE LET e1 == IF remaining # {}
                           THEN LET r == CHOOSE v \in remaining : TRUE
                                IN  [e EXCEPT !.remainingTime = r, !.duration = r, !.startTime = t]
                           ELSE e
             IN  tick([e1 EXCEPT !.isPaused = FALSE], t)

\* resume keeping the duration of the run when an override is given
resume_keepsDuration(e, remaining, t) ==
    IF ~e.isRunning \/ ~e.isPaused
        THEN e
        ELSE LET e1 == IF remaining # {}
                           THEN LET r == CHOOSE v \in remaining : TRUE
                                IN  [e EXCEPT !.remainingTime = r, !.startTime = t]
                           ELSE LET pausedDuration == t - e.pausedTime
                                IN  [e EXCEPT !.startTime = @ + pausedDuration]
             IN  tick([e1 EXCEPT !.isPaused = FALSE], t)

\* resume counting the whole duration again from the moment of resuming
resume_restartsClock(e, remaining, t) ==
    IF ~e.isRunning \/ ~e.isPaused
        THEN e
        ELSE LET e1 == IF remaining # {}
                           THEN LET r == CHOOSE v \in remaining : TRUE
                                IN  [e EXCEPT !.remainingTime = r, !.duration = r, !.startTime = t]
                           ELSE [e EXCEPT !.startTime = t]
             IN  tick([e1 EXCEPT !.isPaused = FALSE], t)

resume(e, remaining, t) ==
    IF ~e.isRunning \/ ~e.isPaused
        THEN e
        ELSE LET e1 == IF remaining # {}
                           THEN LET r == CHOOSE v \in remaining : TRUE
                                IN  [e EXCEPT !.remainingTime = r, !.duration = r, !.startTime = t]
                           ELSE LET pausedDuration == t - e.pausedTime
                                IN  [e EXCEPT !.startTime = @ + pausedDuration]
             IN  tick([e1 EXCEPT !.isPaused = FALSE], t)

getRemainingTime(e) == e.remainingTime

isActive(e) == e.isRunning /\ ~e.isPaused

\* the browser runs the frame id: it leaves the queue and its callback, tick, is called
animationFrame(e, id, t) == tick([e EXCEPT !.pendingFrames = @ \ {id}], t)

(***************************************************************************)
(* Session Persistence (class StorageService).  A stored string is held as  *)
(* what JSON.parse makes of it: an object, null, or a syntax error.  A      *)
(* property an object lacks is undefined.  An operator takes the service st *)
(* (isStorageAvailable, the browser's localStorage, memoryStorage) and      *)
(* whether the localStorage calls it makes throw.                           *)
(***************************************************************************)
SETTINGS_KEY == "prayer-cycle-settings"

SESSION_KEY == "prayer-cycle-session"

BACKUP_KEY == "prayer-cycle-backup"

StorageKeys == {SETTINGS_KEY, SESSION_KEY, BACKUP_KEY}

\* JavaScript values by type
JUndef == [t |-> "undefined", b |-> FALSE, s |-> "", n |-> 0]

JBool(x) == [t |-> "boolean", b |-> x, s |-> "", n |-> 0]

JStr(x) == [t |-> "string", b |-> FALSE, s |-> x, n |-> 0]

JNum(x) == [t |-> "number", b |-> FALSE, s |-> "", n |-> x]

typeof(v) == v.t

\* {}: an object without properties
EmptyObject == [audioEnabled |-> JUndef, primaryColor |-> JUndef, deviceType |-> JUndef, wakeLockEnabled |-> JUndef,
                currentStep |-> JUndef, timeRemaining |-> JUndef, status |-> JUndef, timestamp |-> JUndef]

\* the text of an object: properties that are undefined are left out
JSONstringify(object) == [kind |-> "object", doc |-> object]

\* text that is not JSON
InvalidJson == [kind |-> "invalid", doc |-> EmptyObject]

\* the text null
NullJson == [kind |-> "null", doc |-> EmptyObject]

\* JSON.parse: a SyntaxError, null or the object
JSONparse(text) == [threw |-> text.kind = "invalid", isNull |-> text.kind = "null", value |-> text.doc]

StorageService == [isStorageAvailable |-> isStorageAvailable, localStorage |-> localStorage, memoryStorage |-> memoryStorage]

\* setItem writing to both stores when localStorage throws
setItem_ignoresProbe(st, key, value, throws) ==
    IF ~throws
        THEN [st EXCEPT !.localStorage[key] = {value}]
        ELSE [st EXCEPT !.memoryStorage[key] = {value}]

setItem(st, key, value, throws) ==
    IF st.isStorageAvailable
        THEN IF ~throws
                 THEN [st EXCEPT !.localStorage[key] = {value}]
                 ELSE [st EXCEPT !.memoryStorage[key] = {value}]
        ELSE [st EXCEPT !.memoryStorage[key] = {value}]

\* the string under key, {} for null
getItem(st, key, throws) ==
    IF st.isStorageAvailable
        THEN IF ~throws THEN st.localStorage[key] ELSE st.memoryStorage[key]
        ELSE st.memoryStorage[key]

removeItem(st, key, throws) ==
    LET st1 == IF st.isStorageAvailable /\ ~throws THEN [st EXCEPT !.localStorage[key] = {}] ELSE st
    IN  [st1 EXCEPT !.memoryStorage[key] = {}]

isValidSessionData(data) ==
    /\ typeof(data.currentStep) = "number"
    /\ data.currentStep.n >= 0
    /\ data.currentStep.n < 12
    /\ typeof(data.timeRemaining) = "number"
    /\ data.timeRemaining.n >= 0
    /\ data.status \in {JStr("active"), JStr("paused"), JStr("transitioning")}
    /\ typeof(data.timestamp) = "number"

isValidSettingsData(data) ==
    /\ typeof(data.audioEnabled) = "boolean"
    /\ typeof(data.primaryColor) = "string"
    /\ data.deviceType \in {JStr("mobile"), JStr("desktop")}

defaultSettings == [EmptyObject EXCEPT !.audioEnabled = JBool(TRUE), !.primaryColor = JStr("#2cace2"), !.deviceType = JStr("mobile")]

\* throws[1], throws[2]: whether the first and the second localStorage.setItem throw
saveSettings(st, userSettings, throws) ==
    LET settingsJson == JSONstringify(userSettings)
    IN  setItem(setItem(st, SETTINGS_KEY, settingsJson, throws[1]), BACKUP_KEY, settingsJson, throws[2])

\* the service after the call and what the call returned ({} for null)
restoreSettingsFromBackup(st, getThrows, setThrows) ==
    LET backupJson == getItem(st, BACKUP_KEY, getThrows)
    IN  IF backupJson = {}
            THEN [st |-> st, result |-> {}]
            ELSE LET text == CHOOSE v \in backupJson : TRUE
                     parsed == JSONparse(text)
                 IN  IF parsed.threw \/ parsed.isNull
                         THEN [st |-> st, result |-> {}]
                         ELSE IF isValidSettingsData(parsed.value)
                                  THEN [st |-> setItem(st, SETTINGS_KEY, text, setThrows), result |-> {parsed.value}]
                                  ELSE [st |-> st, result |-> {}]

\* the object loadSettings builds from a parsed one, field by field
mergeWithDefaults(parsedSettings) ==
    [EmptyObject EXCEPT
        !.audioEnabled = IF typeof(parsedSettings.audioEnabled) = "boolean" THEN parsedSettings.audioEnabled ELSE defaultSettings.audioEnabled,
        !.primaryColor = IF typeof(parsedSettings.primaryColor) = "string" THEN parsedSettings.primaryColor ELSE defaultSettings.primaryColor,
        !.deviceType = IF parsedSettings.deviceType \in {JStr("mobile"), JStr("desktop")} THEN parsedSettings.deviceType ELSE defaultSettings.deviceType]

\* loadSettings taking the backup whenever the primary record has an invalid field
loadSettings_backupOnInvalid(st, getThrows, setThrows) ==
    LET settingsJson == getItem(st, SETTINGS_KEY, getThrows)
        restored == restoreSettingsFromBackup(st, getThrows, setThrows)
        fromBackup == IF restored.result # {}
                          THEN [st |-> restored.st, result |-> CHOOSE v \in restored.result : TRUE]
                          ELSE [st |-> restored.st, result |-> defaultSettings]
    IN  IF settingsJson = {}
            THEN [st |-> st, result |-> defaultSettings]
            ELSE LET parsed == JSONparse(CHOOSE v \in settingsJson : TRUE)
                 IN  IF parsed.threw \/ parsed.isNull \/ ~isValidSettingsData(parsed.value)
                         THEN fromBackup
                         ELSE [st |-> st, result |-> mergeWithDefaults(parsed.value)]

\* reading a property of null throws, and lands in the catch like a syntax error
loadSettings(st, getThrows, setThrows) ==
    LET settingsJson == getItem(st, SETTINGS_KEY, getThrows)
        restored == restoreSettingsFromBackup(st, getThrows, setThrows)
        fromBackup == IF restored.result # {}
                          THEN [st |-> restored.st, result |-> CHOOSE v \in restored.result : TRUE]
                          ELSE [st |-> restored.st, result |-> defaultSettings]
    IN  IF settingsJson = {}
            THEN [st |-> st, result |-> defaultSettings]
            ELSE LET parsed == JSONparse(CHOOSE v \in settingsJson : TRUE)
                 IN  IF parsed.threw \/ parsed.isNull
                         THEN fromBackup
                         ELSE [st |-> st, result |-> mergeWithDefaults(parsed.value)]

HourMs == 60 * 60 * 1000

maxSessionAge == 2 * 60 * 60 * 1000

\* saveSession writing whatever the status
saveSession_anyStatus(st, state, ms, throws) ==
    LET sessionData == [EmptyObject EXCEPT !.currentStep = JNum(state.currentStep), !.timeRemaining = JNum(state.timeRemaining),
                                           !.status = JStr(state.status), !.timestamp = JNum(ms)]
    IN  setItem(st, SESSION_KEY, JSONstringify(sessionData), throws)

\* ms: the reading of Date.now()
saveSession(st, state, ms, throws) ==
    IF state.status = "active" \/ state.status = "paused" \/ state.status = "transitioning"
        THEN LET sessionData == [EmptyObject EXCEPT !.currentStep = JNum(state.currentStep), !.timeRemaining = JNum(state.timeRemaining),
                                                    !.status = JStr(state.status), !.timestamp = JNum(ms)]
                 sessionJson == JSONstringify(sessionData)
             IN  setItem(st, SESSION_KEY, sessionJson, throws)
        ELSE st

clearSession(st, throws) == removeItem(st, SESSION_KEY, throws)

\* <<>> for null; a null parsed from the text null throws in isValidSessionData and lands in the catch
loadSession(st, ms, getThrows, setThrows) ==
    LET sessionJson == getItem(st, SESSION_KEY, getThrows)
    IN  IF sessionJson = {}
            THEN [st |-> st, result |-> <<>>]
            ELSE LET parsed == JSONparse(CHOOSE v \in sessionJson : TRUE)
                     sessionData == parsed.value
                 IN  IF parsed.threw \/ parsed.isNull
                         THEN [st |-> clearSession(st, getThrows), result |-> <<>>]
                         ELSE IF isValidSessionData(sessionData)
                                  THEN LET sessionAge == ms - sessionData.timestamp.n
                                           loaded1 == loadSettings(st, getThrows, setThrows)
                                       IN  IF sessionAge <= maxSessionAge
                                               THEN [st |-> loaded1.st,
                                                     result |-> <<[currentStep |-> sessionData.currentStep.n,
                                                                   timeRemaining |-> sessionData.timeRemaining.n,
                                                                   status |-> sessionData.status.s,
                                                                   settings |-> loaded1.result]>>]
                                               ELSE [st |-> clearSession(st, getThrows), result |-> <<>>]
                                  ELSE [st |-> st, result |-> <<>>]

(***************************************************************************)
(* The state machine                                                        *)
(***************************************************************************)
\* the refs take the fields of s; lastOp, lastArg and streak observe the call:
\* the action called last, the numbers it was handed, and the count of nextStep()
\* calls made since startCycle() with no other call between (-1: no such run)
Commit(s, op, arg, k) ==
    /\ currentStep' = s.currentStep
    /\ timeRemaining' = s.timeRemaining
    /\ status' = s.status
    /\ settings' = s.settings
    /\ stepDuration' = s.stepDuration
    /\ lastOp' = op
    /\ lastArg' = arg
    /\ streak' = k
    /\ UNCHANGED <<timerVars, timerObs, storageVars, storageObs, appVars>>

StoreInit ==
    /\ currentStep = 0
    /\ timeRemaining = STEP_DURATION_SECONDS
    /\ status = "idle"
    /\ settings = [audioEnabled |-> TRUE, primaryColor |-> "#2cace2", deviceType |-> "mobile"]
    /\ stepDuration = STEP_DURATION_SECONDS

TimerInit ==
    /\ startTime = 0
    /\ pausedTime = 0
    /\ duration = 0
    /\ remainingTime = 0
    /\ animationFrameId = 0
    /\ isRunning = FALSE
    /\ isPaused = FALSE
    /\ onTick = 0
    /\ onComplete = 0
    /\ now = 0
    /\ pendingFrames = {}

\* no completion handler is waiting and onMounted was not called
AppVarsInit ==
    /\ inFlight = 0
    /\ mounted = 0
    /\ presses = 0
    /\ quotaExceeded = FALSE

\* nothing was called yet
ObsInit ==
    /\ lastOp = "init"
    /\ lastArg = <<>>
    /\ streak = -1
    /\ fired = <<>>
    /\ returned = <<>>
    /\ run = 0
    /\ startDuration = 0
    /\ activeTime = 0
    /\ overrideR = -1
    /\ lastTick = -1

\* a service constructed over a working, empty localStorage
StorageInit ==
    /\ isStorageAvailable = TRUE
    /\ localStorage = [k \in StorageKeys |-> {}]
    /\ memoryStorage = [k \in StorageKeys |-> {}]
    /\ dateNow = 0
    /\ loaded = <<>>
    /\ lastSave = <<>>

Init == StoreInit /\ TimerInit /\ StorageInit /\ ObsInit /\ AppVarsInit

StartCycle == Commit(startCycle(Store), "startCycle", <<>>, 0)

PauseTimer == Commit(pauseTimer(Store), "pauseTimer", <<>>, -1)

ResumeTimer == Commit(resumeTimer(Store), "resumeTimer", <<>>, -1)

RestartCycle == Commit(restartCycle(Store), "restartCycle", <<>>, -1)

NextStep == Commit(nextStep(Store), "nextStep", <<>>, IF streak < 0 THEN -1 ELSE Min(streak + 1, TOTAL_PRAYER_STEPS + MaxExtraNext))

UpdateTimer == \E r \in TimeInputs : Commit(updateTimer(Store, r), "updateTimer", <<r>>, -1)

CompleteStep == Commit(completeStep(Store), "completeStep", <<>>, -1)

CompleteCycle == Commit(completeCycle(Store), "completeCycle", <<>>, -1)

UpdateSettings == \E p \in SettingsPartials : Commit(updateSettings(Store, p), "updateSettings", <<>>, -1)

SetStepDuration == \E d \in DurationInputs : Commit(setStepDuration(Store, d), "setStepDuration", <<d>>, -1)

Reset == Commit(reset(Store), "reset", <<>>, -1)

RestoreSession == \E p \in SessionPartials : Commit(restoreSession(Store, p), "restoreSession", <<p.currentStep, p.timeRemaining>>, -1)

Next ==
    \/ StartCycle
    \/ PauseTimer
    \/ ResumeTimer
    \/ RestartCycle
    \/ NextStep
    \/ UpdateTimer
    \/ CompleteStep
    \/ CompleteCycle
    \/ UpdateSettings
    \/ SetStepDuration
    \/ Reset
    \/ RestoreSession

Spec == Init /\ [][Next]_vars

(***************************************************************************)
(* The Timer Engine's state machine: the calls of its public methods, the   *)
(* browser running a pending frame, and the clock advancing.  A call runs   *)
(* at one reading of the clock.                                             *)
(***************************************************************************)
\* the value of the latest onTick among the invocations f, or v when there is none
LatestTick(f, v) ==
    LET ticks == {i \in 1 .. Len(f) : f[i].cb = "onTick"}
    IN  IF ticks = {} THEN v ELSE f[CHOOSE i \in ticks : \A j \in ticks : j <= i].value

\* the engine's fields take the fields of e
CommitTimer(e, op, arg, ret) ==
    /\ startTime' = e.startTime
    /\ pausedTime' = e.pausedTime
    /\ duration' = e.duration
    /\ remainingTime' = e.remainingTime
    /\ animationFrameId' = e.animationFrameId
    /\ isRunning' = e.isRunning
    /\ isPaused' = e.isPaused
    /\ onTick' = e.onTick
    /\ onComplete' = e.onComplete
    /\ pendingFrames' = e.pendingFrames
    /\ fired' = e.fired
    /\ returned' = ret
    /\ lastOp' = op
    /\ lastArg' = arg
    /\ UNCHANGED <<now, storeVars, storeObs, storageVars, storageObs, appVars>>

TimerStart ==
    /\ run < MaxRuns
    /\ \E d \in StartDurations :
          LET e == start(Timer, d, run + 1, now)
          IN  /\ CommitTimer(e, "start", <<d>>, <<>>)
              /\ run' = run + 1
              /\ startDuration' = d
              /\ activeTime' = 0
              /\ overrideR' = -1
              /\ lastTick' = LatestTick(e.fired, -1)

TimerPause ==
    LET e == pause(Timer, now)
    IN  /\ CommitTimer(e, "pause", <<>>, <<e.remainingTime>>)
        /\ UNCHANGED <<run, startDuration, activeTime, overrideR, lastTick>>

TimerResume ==
    \E r \in ResumeInputs :
        LET e == resume(Timer, r, now)
            applies == isRunning /\ isPaused
        IN  /\ CommitTimer(e, "resume", <<r>>, <<>>)
            /\ overrideR' = IF applies /\ r # {} THEN CHOOSE v \in r : TRUE ELSE overrideR
            /\ lastTick' = LatestTick(e.fired, lastTick)
            /\ UNCHANGED <<run, startDuration, activeTime>>

TimerStop ==
    /\ CommitTimer(stop(Timer), "stop", <<>>, <<>>)
    /\ UNCHANGED <<run, startDuration, activeTime, overrideR, lastTick>>

\* the browser runs a pending animation frame
AnimationFrame ==
    \E id \in pendingFrames :
        LET e == animationFrame(Timer, id, now)
        IN  /\ CommitTimer(e, "frame", <<>>, <<>>)
            /\ lastTick' = LatestTick(e.fired, lastTick)
            /\ UNCHANGED <<run, startDuration, activeTime, overrideR>>

\* time passes: performance.now() is monotonic
Advance ==
    \E k \in 1 .. MaxAdvance :
        /\ now + k * HalfSecond <= MaxClock * HalfSecond
        /\ now' = now + k * HalfSecond
        /\ activeTime' = IF isRunning /\ ~isPaused THEN activeTime + k * HalfSecond ELSE activeTime
        /\ lastOp' = "advance"
        /\ lastArg' = <<>>
        /\ fired' = <<>>
        /\ returned' = <<>>
        /\ UNCHANGED <<startTime, pausedTime, duration, remainingTime, animationFrameId, isRunning, isPaused, onTick, onComplete, pendingFrames>>
        /\ UNCHANGED <<run, startDuration, overrideR, lastTick, storeVars, storeObs, storageVars, storageObs, appVars>>

NextTimer ==
    \/ TimerStart
    \/ TimerPause
    \/ TimerResume
    \/ TimerStop
    \/ AnimationFrame
    \/ Advance

SpecTimer == Init /\ [][NextTimer]_vars

(***************************************************************************)
(* restoreSession alone, on every kind of store state the store's actions   *)
(* reach, with the whole snapshot it was handed kept in lastArg.            *)
(***************************************************************************)
\* the steps a store is restored over: the two ends and the middle
RestoreSteps == {0, TOTAL_PRAYER_STEPS \div 2, TOTAL_PRAYER_STEPS - 1}

InitRestore ==
    /\ currentStep \in RestoreSteps
    /\ timeRemaining \in DurationInputs \cup {0}
    /\ status \in PrayerStatus
    /\ settings = [audioEnabled |-> TRUE, primaryColor |-> "#2cace2", deviceType |-> "mobile"]
    /\ stepDuration \in DurationInputs
    /\ TimerInit
    /\ StorageInit
    /\ ObsInit
    /\ AppVarsInit

RestoreSnapshot == \E p \in SessionPartials : Commit(restoreSession(Store, p), "restoreSession", <<p>>, -1)

NextRestore == RestoreSnapshot

SpecRestore == InitRestore /\ [][NextRestore]_vars

(***************************************************************************)
(* The StorageService's state machine: its public methods, called with any  *)
(* outcome of the localStorage calls they make, and the wall clock.         *)
(* localStorage.setItem throws when the quota is exceeded.                  *)
(***************************************************************************)
\* the settings objects handed to saveSettings: store.settings, with and without
\* the wakeLockEnabled property the settings panel adds
SettingsInputs ==
    {[EmptyObject EXCEPT !.audioEnabled = JBool(FALSE), !.primaryColor = JStr("#2cace2"), !.deviceType = JStr("desktop"), !.wakeLockEnabled = JBool(FALSE)],
     [EmptyObject EXCEPT !.audioEnabled = JBool(TRUE), !.primaryColor = JStr("#2cace2"), !.deviceType = JStr("mobile")]}

\* the store states handed to saveSession (its settings are not written)
SessionInputs ==
    {[currentStep |-> 0, timeRemaining |-> STEP_DURATION_SECONDS, status |-> "idle"],
     [currentStep |-> 3, timeRemaining |-> 10, status |-> "active"],
     [currentStep |-> TOTAL_PRAYER_STEPS - 1, timeRemaining |-> 0, status |-> "paused"],
     [currentStep |-> 0, timeRemaining |-> STEP_DURATION_SECONDS, status |-> "transitioning"],
     [currentStep |-> TOTAL_PRAYER_STEPS - 1, timeRemaining |-> 0, status |-> "completed"]}

\* a session object as a string found in storage
SessionText(step, time, st, stamp) ==
    JSONstringify([EmptyObject EXCEPT !.currentStep = step, !.timeRemaining = time, !.status = st, !.timestamp = stamp])

\* what localStorage holds when the service is constructed: nothing, or strings
\* that are corrupt, foreign or out of range
InitialStorages ==
    LET validSettings == JSONstringify([EmptyObject EXCEPT !.audioEnabled = JBool(FALSE), !.primaryColor = JStr("#2cace2"), !.deviceType = JStr("desktop")])
        badSettings == JSONstringify([EmptyObject EXCEPT !.audioEnabled = JStr("yes"), !.primaryColor = JStr("#2cace2"), !.deviceType = JStr("desktop")])
        M(a, b, c) == (SETTINGS_KEY :> a) @@ (BACKUP_KEY :> b) @@ (SESSION_KEY :> c)
    IN  {M({}, {}, {}),
         M({InvalidJson}, {validSettings}, {InvalidJson}),
         M({badSettings}, {validSettings}, {SessionText(JNum(15), JNum(10), JStr("active"), JNum(0))}),
         M({NullJson}, {InvalidJson}, {SessionText(JNum(3), JNum(-5), JStr("active"), JNum(0))}),
         M({}, {validSettings}, {SessionText(JNum(3), JNum(10), JStr("idle"), JNum(0))}),
         M({InvalidJson}, {NullJson}, {SessionText(JNum(3), JNum(10), JStr("paused"), JStr("yesterday"))}),
         M({InvalidJson}, {badSettings}, {NullJson})}

\* the state after the constructor: the probe write succeeded or threw
InitStorage ==
    /\ StoreInit
    /\ TimerInit
    /\ ObsInit
    /\ AppVarsInit
    /\ isStorageAvailable \in BOOLEAN
    /\ localStorage \in InitialStorages
    /\ memoryStorage = [k \in StorageKeys |-> {}]
    /\ dateNow = 0
    /\ loaded = <<>>
    /\ lastSave = <<>>

\* the service's fields take the fields of st
CommitStorage(st, op, arg, result) ==
    /\ isStorageAvailable' = st.isStorageAvailable
    /\ localStorage' = st.localStorage
    /\ memoryStorage' = st.memoryStorage
    /\ loaded' = result
    /\ lastOp' = op
    /\ lastArg' = arg
    /\ UNCHANGED <<dateNow, storeVars, storeObs, timerVars, timerObs, appVars>>

SaveSettings ==
    \E userSettings \in SettingsInputs, throws \in [1 .. 2 -> BOOLEAN] :
        /\ CommitStorage(saveSettings(StorageService, userSettings, throws), "saveSettings", <<userSettings>>, <<>>)
        /\ UNCHANGED lastSave

LoadSettings ==
    \E getThrows \in BOOLEAN, setThrows \in BOOLEAN :
        LET r == loadSettings(StorageService, getThrows, setThrows)
        IN  /\ CommitStorage(r.st, "loadSettings", <<getThrows, setThrows>>, <<r.result>>)
            /\ UNCHANGED lastSave

SaveSession ==
    \E state \in SessionInputs, throws \in BOOLEAN :
        /\ CommitStorage(saveSession(StorageService, state, dateNow, throws), "saveSession", <<state>>, <<>>)
        /\ lastSave' = IF state.status \in {"active", "paused", "transitioning"}
                           THEN <<[state |-> state, at |-> dateNow]>>
                           ELSE lastSave

LoadSession ==
    \E getThrows \in BOOLEAN, setThrows \in BOOLEAN :
        LET r == loadSession(StorageService, dateNow, getThrows, setThrows)
        IN  /\ CommitStorage(r.st, "loadSession", <<getThrows, setThrows>>, r.result)
            /\ UNCHANGED lastSave

ClearSession ==
    \E throws \in BOOLEAN :
        /\ CommitStorage(clearSession(StorageService, throws), "clearSession", <<>>, <<>>)
        /\ lastSave' = <<>>

\* an hour goes by
HourPasses ==
    /\ dateNow < MaxHours * HourMs
    /\ dateNow' = dateNow + HourMs
    /\ lastOp' = "hour"
    /\ lastArg' = <<>>
    /\ loaded' = <<>>
    /\ UNCHANGED <<isStorageAvailable, localStorage, memoryStorage, lastSave, storeVars, storeObs, timerVars, timerObs, appVars>>

\* the session methods, over a localStorage that works or not
NextSession ==
    \/ SaveSession
    \/ LoadSession
    \/ ClearSession
    \/ HourPasses

SpecSession == InitStorage /\ [][NextSession]_vars

\* the settings methods, over a localStorage that works or not
NextSettings ==
    \/ SaveSettings
    \/ LoadSettings

SpecSettings == InitStorage /\ [][NextSettings]_vars

\* the state after a constructor whose probe write threw
InitMemory ==
    /\ InitStorage
    /\ ~isStorageAvailable

\* every method, on a service that found localStorage unavailable
NextMemory ==
    \/ SaveSettings
    \/ LoadSettings
    \/ SaveSession
    \/ LoadSession
    \/ ClearSession
    \/ HourPasses

SpecMemory == InitMemory /\ [][NextMemory]_vars

(***************************************************************************)
(* Claims about the Cycle State Store, checked under Spec                   *)
(***************************************************************************)
LastStep == TOTAL_PRAYER_STEPS - 1

\* C1: after any sequence of store actions, restoreSession with any integer
\* step value included, 0 <= currentStep <= 11.
C1_StepInRange == currentStep \in 0 .. LastStep

\* restoreSession was handed a step above 11 and the store sits at step 11
C1_Witness == lastOp = "restoreSession" /\ lastArg[1] = {TOTAL_PRAYER_STEPS} /\ currentStep = LastStep

\* C2: in every state reachable through the exported actions, status
\* completed implies timeRemaining = 0 and currentStep = 11.
C2_CompletedAtEnd == status = "completed" => (timeRemaining = 0 /\ currentStep = LastStep)

\* C3: in every state reachable through the exported actions, status idle
\* implies currentStep = 0 and timeRemaining = the configured step duration.
C3_IdleAtStart == status = "idle" => (currentStep = 0 /\ timeRemaining = stepDuration)

C5_StartCycleResets ==
    /\ lastOp = "startCycle" => (currentStep = 0 /\ timeRemaining = stepDuration /\ status = "active")
    /\ startCycle(Store) = [currentStep |-> 0, timeRemaining |-> stepDuration, status |-> "active", settings |-> settings, stepDuration |-> stepDuration]

\* startCycle() has run with an overridden step duration
C5_Witness == lastOp = "startCycle" /\ stepDuration # STEP_DURATION_SECONDS /\ timeRemaining = stepDuration

\* C6: from startCycle(), the k-th consecutive nextStep() for k = 1..11 leaves
\* the store at step k with status active, the 12th sets status completed with
\* timeRemaining 0 and currentStep 11, and no further nextStep() gives a step
\* of 12 or more.
C6_TwelveNextSteps ==
    /\ streak \in 0 .. LastStep => (currentStep = streak /\ status = "active" /\ timeRemaining = stepDuration)
    /\ streak >= TOTAL_PRAYER_STEPS => (currentStep = LastStep /\ status = "completed" /\ timeRemaining = 0)
    /\ lastOp = "nextStep" => currentStep <= LastStep

\* nextStep() was called beyond the twelfth time in a row after startCycle()
C6_Witness == streak = TOTAL_PRAYER_STEPS + MaxExtraNext /\ lastOp = "nextStep" /\ status = "completed"

\* C7: for every step below 11, every status and every time written by
\* updateTimer, nextStep() increments currentStep by exactly 1, sets
\* timeRemaining to the configured step duration and sets status active.
C7_NextStepAdvances ==
    [][(lastOp' = "nextStep" /\ currentStep < LastStep) =>
          (/\ currentStep' = currentStep + 1
           /\ timeRemaining' = stepDuration
           /\ stepDuration' = stepDuration
           /\ status' = "active")]_vars

\* nextStep() has advanced a store whose step duration was overridden
C7_Witness == lastOp = "nextStep" /\ currentStep = 1 /\ status = "active" /\ stepDuration # STEP_DURATION_SECONDS /\ timeRemaining = stepDuration

\* C8: pauseTimer() changes the state only when status is active (to paused),
\* resumeTimer() only when status is paused (to active); in every other status
\* the whole state is unchanged, and currentStep and timeRemaining always are.
C8_PauseResumeGuarded ==
    [][/\ lastOp' = "pauseTimer" =>
            /\ status' = (IF status = "active" THEN "paused" ELSE status)
            /\ UNCHANGED <<currentStep, timeRemaining, settings, stepDuration>>
       /\ lastOp' = "resumeTimer" =>
            /\ status' = (IF status = "paused" THEN "active" ELSE status)
            /\ UNCHANGED <<currentStep, timeRemaining, settings, stepDuration>>]_vars

\* pauseTimer() was called on a completed store, which stays completed
C8_Witness == lastOp = "pauseTimer" /\ status = "completed" /\ currentStep = LastStep

\* C9: updateTimer(r) only writes timeRemaining = max(0, r): for every r,
\* r <= 0 included, currentStep, status, settings and the configured step
\* duration are unchanged, so the store never advances by itself at zero.
C9_UpdateTimerPureWrite ==
    [][lastOp' = "updateTimer" =>
          /\ timeRemaining' = Max(0, lastArg'[1])
          /\ UNCHANGED <<currentStep, status, settings, stepDuration>>]_vars

\* updateTimer(0) on an active store before the last step: still active
C9_Witness == lastOp = "updateTimer" /\ lastArg[1] = 0 /\ timeRemaining = 0 /\ status = "active" /\ currentStep < LastStep

\* C10: restartCycle() and reset() have the identical effect from every store
\* state: currentStep = 0, timeRemaining = configured step duration, status
\* idle (not active).
C10_ResetIsRestart ==
    /\ restartCycle(Store) = reset(Store)
    /\ lastOp \in {"restartCycle", "reset"} => (currentStep = 0 /\ timeRemaining = stepDuration /\ status = "idle")

\* reset() has run on a store whose step duration was overridden
C10_Witness == lastOp = "reset" /\ stepDuration # STEP_DURATION_SECONDS /\ timeRemaining = stepDuration /\ status = "idle"

\* the percentage the spec's formula gives: the configured step duration in place of the default
progressFromStepDuration(s) == Frac((s.currentStep * s.stepDuration + (s.stepDuration - s.timeRemaining)) * 100, s.stepDuration * TOTAL_PRAYER_STEPS)

\* C11: in every reachable store state, progressPercentage equals exactly 100
\* if and only if status is completed.
C11_HundredIffCompleted == FracEq(progressPercentage(Store), Frac(100, 1)) <=> status = "completed"

\* C12: progressPercentage is computed from the configured step duration: it
\* equals (currentStep + (stepDuration - timeRemaining)/stepDuration)/12*100 in
\* every state, and so equals 0 right after startCycle() for every duration.
C12_ProgressFromConfiguredDuration ==
    /\ FracEq(progressPercentage(Store), progressFromStepDuration(Store))
    /\ lastOp = "startCycle" => FracEq(progressPercentage(Store), Frac(0, 1))

\* C13: restoreSession(partial) applies each supplied field on its own:
\* currentStep clamped into [0,11], timeRemaining clamped to >= 0, status
\* copied, settings merged; every field absent from the partial, and the step
\* duration, is unchanged; a bad value in one field never stops the others.
C13_RestoreFieldwise ==
    [][lastOp' = "restoreSession" =>
          LET p == lastArg'[1]
          IN  /\ currentStep' = IF p.currentStep = {} THEN currentStep
                                ELSE Max(0, Min(CHOOSE v \in p.currentStep : TRUE, LastStep))
              /\ timeRemaining' = IF p.timeRemaining = {} THEN timeRemaining
                                  ELSE Max(0, CHOOSE v \in p.timeRemaining : TRUE)
              /\ status' = IF p.status = {} THEN status ELSE CHOOSE v \in p.status : TRUE
              /\ settings' = IF p.settings = {} THEN settings
                             ELSE Spread(settings, CHOOSE v \in p.settings : TRUE)
              /\ stepDuration' = stepDuration]_vars

\* a snapshot with a step above 11 and a negative time, without settings, was restored: the other fields went in
C13_Witness ==
    /\ lastOp = "restoreSession"
    /\ lastArg[1].currentStep = {TOTAL_PRAYER_STEPS}
    /\ lastArg[1].timeRemaining = {-1}
    /\ lastArg[1].status = {"paused"}
    /\ lastArg[1].settings = {}
    /\ currentStep = LastStep
    /\ timeRemaining = 0
    /\ status = "paused"
    /\ settings.audioEnabled

\* C14: start(d, onTick, onComplete) with d > 0, on a stopped, running or
\* paused engine, leaves it running and not paused with getRemainingTime() = d
\* right after the call, and every callback invoked from then on is one
\* supplied to the latest start.
C14_StartActivates ==
    [][/\ lastOp' = "start" /\ lastArg'[1] > 0 =>
             /\ isActive(Timer')
             /\ getRemainingTime(Timer') = lastArg'[1]
       /\ \A i \in 1 .. Len(fired') : fired'[i].of = run']_vars

\* a second start with a positive duration, later than the first
C14_Witness ==
    /\ lastOp = "start"
    /\ lastArg[1] > 0
    /\ run = 2
    /\ now > 0
    /\ isRunning /\ ~isPaused
    /\ remainingTime = lastArg[1]

\* C15: when pause() returns no frame is pending, and while the engine is
\* paused no onTick and no onComplete is invoked by anything but resume() or
\* start().
C15_PauseSilences ==
    [][/\ lastOp' = "pause" /\ isPaused' => pendingFrames' = {}
       /\ isRunning /\ isPaused /\ lastOp' \notin {"resume", "start"} => fired' = <<>>]_vars

\* a running engine that had ticked was paused, and time went by
C15_Witness ==
    /\ lastOp = "advance"
    /\ isRunning /\ isPaused
    /\ remainingTime > 0
    /\ remainingTime < startDuration
    /\ pendingFrames = {}

\* C16: pause() on an engine that is not running or already paused returns
\* the remaining time it holds and changes no field; resume() on an engine
\* that is not running or not paused changes no field; neither schedules a
\* frame nor invokes a callback.
C16_InvalidRequestsNoOp ==
    [][/\ lastOp' = "pause" /\ (~isRunning \/ isPaused) =>
             /\ UNCHANGED timerVars
             /\ fired' = <<>>
             /\ returned' = <<remainingTime>>
       /\ lastOp' = "resume" /\ (~isRunning \/ ~isPaused) =>
             /\ UNCHANGED timerVars
             /\ fired' = <<>>]_vars

\* pause() was called on a stopped engine that still holds a remaining time
C16_Witness ==
    /\ lastOp = "pause"
    /\ ~isRunning
    /\ ~isPaused
    /\ remainingTime > 0
    /\ returned = <<remainingTime>>

\* C17: in a run of duration d that was never resumed with an override, every
\* tick reports max(0, d - time spent running and not paused since start), and
\* the first tick of resume() reports the remaining time pause() left.
C17_PausedTimeExcluded ==
    [][/\ overrideR' = -1 =>
             \A i \in 1 .. Len(fired') :
                 fired'[i].cb = "onTick" => fired'[i].value = Max(0, startDuration' - activeTime')
       /\ lastOp' = "pause" => returned' = <<remainingTime'>>
       /\ isRunning /\ isPaused /\ lastOp' = "resume" /\ lastArg'[1] = {} =>
             /\ fired' # <<>>
             /\ fired'[1] = Call("onTick", run, remainingTime)]_vars

\* resume() without override after a pause that lasted, in a run that had run for a while
C17_Witness ==
    /\ lastOp = "resume"
    /\ lastArg = <<{}>>
    /\ overrideR = -1
    /\ activeTime > 0
    /\ now - startTime = activeTime
    /\ startTime > 0
    /\ fired # <<>>
    /\ fired[1].value = startDuration - activeTime
    /\ fired[1].value > 0

C19_StopFinal ==
    [][/\ lastOp' = "stop" =>
             /\ ~isRunning' /\ ~isPaused'
             /\ pendingFrames' = {}
             /\ onTick' = 0 /\ onComplete' = 0
             /\ fired' = <<>>
       /\ lastOp = "stop" /\ lastOp' = "stop" => UNCHANGED timerVars
       /\ ~isRunning /\ lastOp' # "start" => fired' = <<>>
       /\ lastOp' = "start" => \A i \in 1 .. Len(fired') : fired'[i].of = run']_vars

\* a run with time left was stopped
C19_Witness ==
    /\ lastOp = "stop"
    /\ run > 0
    /\ remainingTime > 0
    /\ animationFrameId = 0
    /\ ~isRunning /\ ~isPaused
    /\ pendingFrames = {}

\* C20: start with a zero or negative duration completes in its first tick:
\* onTick(0), then onComplete, the engine not active, getRemainingTime() = 0,
\* no frame pending, and no tick of that run ever reports a positive value.
C20_NonPositiveCompletesAtOnce ==
    [][/\ lastOp' = "start" /\ lastArg'[1] <= 0 =>
             /\ fired' = <<Call("onTick", run', 0), Call("onComplete", run', 0)>>
             /\ ~isActive(Timer')
             /\ ~isRunning'
             /\ getRemainingTime(Timer') = 0
             /\ pendingFrames' = {}
       /\ startDuration' <= 0 =>
             \A i \in 1 .. Len(fired') : fired'[i].cb = "onTick" => fired'[i].value <= 0]_vars

\* a run was started with a negative duration
C20_Witness ==
    /\ lastOp = "start"
    /\ lastArg = <<-HalfSecond>>
    /\ Len(fired) = 2
    /\ ~isRunning
    /\ remainingTime = 0

\* C21: onComplete is invoked at most once per start/resume cycle, as the last
\* callback of a tick, right after that tick's onTick(0); the engine is then
\* not running, no frame is pending, and nothing is invoked until the next start.
C21_CompleteOnceAfterZeroTick ==
    [][/\ \A i \in 1 .. Len(fired') :
             fired'[i].cb = "onComplete" =>
                 /\ i = Len(fired')
                 /\ i = 2
                 /\ fired'[i - 1] = Call("onTick", fired'[i].of, 0)
                 /\ fired'[i].of = run'
                 /\ ~isRunning'
                 /\ pendingFrames' = {}
       /\ Len(fired') <= 2
       /\ ~isRunning /\ lastOp' \notin {"start"} => fired' = <<>> /\ ~isRunning']_vars

\* a frame found the time of a run of positive duration used up
C21_Witness ==
    /\ lastOp = "frame"
    /\ startDuration > 0
    /\ fired = <<Call("onTick", run, 0), Call("onComplete", run, 0)>>
    /\ ~isRunning

\* C22: within a run no tick reports more than the tick before it, except the
\* tick of a resume with an override; the tick of a resume without override
\* is no greater than the last tick before the pause.
C22_TicksNonIncreasing ==
    [][LET overrides == isRunning /\ isPaused /\ lastOp' = "resume" /\ lastArg'[1] # {}
       IN  lastOp' # "start" /\ ~overrides /\ lastTick # -1 =>
               /\ lastTick' <= lastTick
               /\ \A i \in 1 .. Len(fired') : fired'[i].cb = "onTick" => fired'[i].value <= lastTick]_vars

\* a resume without override ticked lower than the run's earlier tick, after a pause that lasted
C22_Witness ==
    /\ lastOp = "resume"
    /\ lastArg = <<{}>>
    /\ overrideR = -1
    /\ fired # <<>>
    /\ lastTick > 0
    /\ lastTick < startDuration
    /\ now - activeTime > 0

\* C23: every tick reports max(0, duration - (now - startTime)) computed from
\* the clock at the tick, whatever frames ran or were skipped before, and never
\* a value below 0.
C23_DriftCompensated ==
    [][\A i \in 1 .. Len(fired') :
           fired'[i].cb = "onTick" =>
               /\ fired'[i].value = Max(0, duration' - (now' - startTime'))
               /\ fired'[i].value >= 0
               /\ overrideR' = -1 /\ pausedTime' = 0 => fired'[i].value = Max(0, startDuration' - activeTime')]_vars

\* the first frame after a gap longer than the whole run: the tick reports 0, not a negative value
C23_Witness ==
    /\ lastOp = "frame"
    /\ duration > 0
    /\ now - startTime > duration
    /\ lastTick = 0
    /\ fired # <<>>
    /\ fired[1] = Call("onTick", run, 0)

\* the session record and the settings records the service reads when localStorage does not throw
SessionRecord == getItem(StorageService, SESSION_KEY, FALSE)

SettingsRecord == getItem(StorageService, SETTINGS_KEY, FALSE)

BackupRecord == getItem(StorageService, BACKUP_KEY, FALSE)

\* a stored string that parses to an object
IsObjectText(record) == record # {} /\ \A v \in record : v.kind = "object"

\* C24: saveSession(state) with status idle or completed leaves localStorage
\* and the in-memory map exactly as they were; with status active, paused or
\* transitioning it writes the session record, and nothing else.
C24_SaveOnlyInProgress ==
    [][lastOp' = "saveSession" =>
          LET state == lastArg'[1]
              text == SessionText(JNum(state.currentStep), JNum(state.timeRemaining), JStr(state.status), JNum(dateNow))
          IN  IF state.status \in {"idle", "completed"}
                  THEN UNCHANGED <<localStorage, memoryStorage>>
                  ELSE \/ /\ localStorage' = [localStorage EXCEPT ![SESSION_KEY] = {text}]
                          /\ memoryStorage' = memoryStorage
                       \/ /\ memoryStorage' = [memoryStorage EXCEPT ![SESSION_KEY] = {text}]
                          /\ localStorage' = localStorage]_vars

\* saveSession was called with a completed store over the record of a paused session, which is still there
C24_Witness ==
    /\ lastOp = "saveSession"
    /\ lastArg[1].status = "completed"
    /\ lastSave # <<>>
    /\ lastSave[1].state.status = "paused"
    /\ IsObjectText(SessionRecord)
    /\ \A v \in SessionRecord : v.doc.status = JStr("paused")

\* C25: loadSession() returns null when the record it finds is absent, not
\* JSON, structurally invalid (step outside [0,11], negative time, status not
\* recoverable, timestamp not a number) or older than 2 hours, and after each
\* such call no session record is left.
C25_BadRecordDeleted ==
    [][lastOp' = "loadSession" =>
          LET unusable == \/ SessionRecord = {}
                          \/ ~IsObjectText(SessionRecord)
                          \/ \E v \in SessionRecord : ~isValidSessionData(v.doc)
                          \/ \E v \in SessionRecord : isValidSessionData(v.doc) /\ dateNow - v.doc.timestamp.n > maxSessionAge
          IN  unusable => loaded' = <<>> /\ SessionRecord' = {}]_vars

\* C26: loadSession() no more than 2 hours after a saveSession(s) with s
\* active or paused returns s.currentStep, s.timeRemaining and s.status, and
\* leaves the session record as it was.
C26_SessionRoundTrip ==
    [][/\ lastOp' = "loadSession"
       /\ lastSave # <<>>
       /\ lastSave[1].state.status \in {"active", "paused"}
       /\ dateNow - lastSave[1].at <= maxSessionAge
       => /\ loaded' # <<>>
          /\ loaded'[1].currentStep = lastSave[1].state.currentStep
          /\ loaded'[1].timeRemaining = lastSave[1].state.timeRemaining
          /\ loaded'[1].status = lastSave[1].state.status
          /\ SessionRecord' = SessionRecord
          /\ SessionRecord' # {}]_vars

\* C27: loadSettings() right after saveSettings(s) returns an object equal to s
\* in every field, wakeLockEnabled included.
C27_SettingsRoundTrip ==
    [][lastOp = "saveSettings" /\ lastOp' = "loadSettings" => loaded' = <<lastArg[1]>>]_vars

\* C28: after saveSettings(s) the backup record and the primary settings
\* record are both the serialized s.
C28_BackupMirrorsSettings ==
    [][lastOp' = "saveSettings" =>
          /\ BackupRecord' = SettingsRecord'
          /\ SettingsRecord' = {JSONstringify(lastArg'[1])}]_vars

\* the settings and backup strings loadSettings reads, given whether localStorage.getItem throws
ReadSettings == getItem(StorageService, SETTINGS_KEY, lastArg'[1])

ReadBackup == getItem(StorageService, BACKUP_KEY, lastArg'[1])

\* the backup is an object with valid fields
BackupUsable(record) == IsObjectText(record) /\ \A v \in record : isValidSettingsData(v.doc)

isValidStateTransition(from, to) ==
    LET validTransitions == [idle |-> {"active"},
                             active |-> {"paused", "transitioning", "completed"},
                             paused |-> {"active", "idle"},
                             transitioning |-> {"active", "completed"},
                             completed |-> {"idle"}]
    IN  to \in validTransitions[from]

\* C34: every status change made by startCycle, pauseTimer, resumeTimer,
\* nextStep, completeStep, restartCycle or reset is a transition that
\* isValidStateTransition allows.
C34_StoreFollowsStatusMachine ==
    [][/\ lastOp' \in {"startCycle", "pauseTimer", "resumeTimer", "nextStep", "completeStep", "restartCycle", "reset"}
       /\ status' # status
       => isValidStateTransition(status, status')]_vars

\* C40: on a service whose probe succeeded, loadSession() right after
\* saveSession(x), with no read fault, returns x even when the write threw.
C40_ReadYourWrites ==
    [][/\ isStorageAvailable
       /\ lastOp = "saveSession"
       /\ lastArg[1].status \in {"active", "paused"}
       /\ lastOp' = "loadSession"
       /\ lastArg' = <<FALSE, FALSE>>
       => /\ loaded' # <<>>
          /\ loaded'[1].currentStep = lastArg[1].currentStep
          /\ loaded'[1].timeRemaining = lastArg[1].timeRemaining
          /\ loaded'[1].status = lastArg[1].status]_vars

(***************************************************************************)
(* Orchestration (src/src/App.vue): the handlers of the component over the  *)
(* store, the Timer Engine and the storage service.  An operator takes the  *)
(* application a (the three of them, the completion handlers waiting for    *)
(* the audio service and the progress of onMounted), the reading t of       *)
(* performance.now(), the reading ms of Date.now() and whether the          *)
(* localStorage.setItem it calls throws (getItem and removeItem do not).    *)
(* The store holds seconds and the engine thousandths; the clock is read    *)
(* at whole seconds.                                                        *)
(***************************************************************************)
\* the last reading of the clock, in seconds
MaxSeconds == 2

\* the largest ?step= parameter of the URL
MaxStepSeconds == 1

\* the completion handlers that wait for the audio service at one time
MaxInFlight == 2

\* the events of the user in one run
MaxPresses == 2

Thousandths(seconds) == seconds * MS_PER_SECOND

Seconds(thousandths) == thousandths \div MS_PER_SECOND

App == [s |-> Store, e |-> Timer, st |-> StorageService, inFlight |-> inFlight, mounted |-> mounted]

handleTimerTick(a, remaining) == [a EXCEPT !.s = updateTimer(@, Seconds(remaining))]

RECURSIVE runCallbacks(_, _, _)

RECURSIVE startTimer(_, _)

\* handleTimerComplete from store.completeStep() on: what runs once the awaits are over
completeAndContinue(a, t) ==
    LET a1 == [a EXCEPT !.s = completeStep(@)]
    IN  IF a1.s.status = "active" THEN startTimer(a1, t) ELSE a1

\* with audio enabled the handler waits for the audio service; without, it has no await
handleTimerComplete(a, t) ==
    IF a.s.settings.audioEnabled
        THEN [a EXCEPT !.inFlight = @ + 1]
        ELSE completeAndContinue(a, t)

\* the callbacks an engine method invoked, in order: onTick is handleTimerTick, onComplete is handleTimerComplete
runCallbacks(a, calls, t) ==
    IF calls = <<>>
        THEN a
        ELSE LET c == Head(calls)
                 a1 == IF c.cb = "onTick" THEN handleTimerTick(a, c.value) ELSE handleTimerComplete(a, t)
             IN  runCallbacks(a1, Tail(calls), t)

\* the application after an engine method left the engine as e
timerService(a, e, t) == runCallbacks([a EXCEPT !.e = [e EXCEPT !.fired = <<>>]], e.fired, t)

startTimer(a, t) ==
    IF a.s.timeRemaining > 0
        THEN timerService(a, start(a.e, Thousandths(a.s.timeRemaining), 1, t), t)
        ELSE a

\* watch(() => store.status, ...): runs after the handler when the status is not the one before it
statusWatcher(a, oldStatus, ms, throws) ==
    IF a.s.status = oldStatus
        THEN a
        ELSE IF a.s.status = "active" \/ a.s.status = "paused"
                 THEN [a EXCEPT !.st = saveSession(@, a.s, ms, throws)]
                 ELSE IF a.s.status = "completed" \/ a.s.status = "idle"
                          THEN [a EXCEPT !.st = clearSession(@, FALSE)]
                          ELSE a

handlePlay(a, t, ms, throws) ==
    LET a1 == IF a.s.status = "idle"
                  THEN startTimer([a EXCEPT !.s = startCycle(@)], t)
                  ELSE IF a.s.status = "paused"
                           THEN LET a2 == [a EXCEPT !.s = resumeTimer(@)]
                                IN  timerService(a2, resume(a2.e, {Thousandths(a2.s.timeRemaining)}, t), t)
                           ELSE a
    IN  [a1 EXCEPT !.st = saveSession(@, a1.s, ms, throws)]

handlePause(a, t, ms, throws) ==
    IF a.s.status = "active"
        THEN LET e1 == pause(a.e, t)
                 remaining == e1.remainingTime
                 a1 == [a EXCEPT !.e = e1, !.s = pauseTimer(@)]
             IN  [a1 EXCEPT !.st = saveSession(@, [a1.s EXCEPT !.timeRemaining = Seconds(remaining)], ms, throws)]
        ELSE a

handleNext(a, t) ==
    LET a1 == [a EXCEPT !.e = stop(@), !.s = nextStep(@)]
    IN  IF a1.s.status = "active"
            THEN startTimer(a1, t)
            ELSE IF a1.s.status = "completed"
                     THEN [a1 EXCEPT !.st = clearSession(@, FALSE)]
                     ELSE a1

handleRestart(a) == [a EXCEPT !.e = stop(@), !.s = restartCycle(@), !.st = clearSession(@, FALSE)]

\* a visibility handler that also pauses the countdown while the page is hidden
handleVisibilityChange_pausesTimer(a, hidden, ms, throws) ==
    IF hidden /\ (a.s.status = "active" \/ a.s.status = "paused")
        THEN [a EXCEPT !.e = pause(@, 0), !.s = pauseTimer(@), !.st = saveSession(@, a.s, ms, throws)]
        ELSE a

handleVisibilityChange(a, hidden, ms, throws) ==
    IF hidden /\ (a.s.status = "active" \/ a.s.status = "paused")
        THEN [a EXCEPT !.st = saveSession(@, a.s, ms, throws)]
        ELSE a

\* a settings object as the Partial<UserSettings> the store takes
SettingsPartial(object) ==
    [audioEnabled |-> {object.audioEnabled.b}, primaryColor |-> {object.primaryColor.s}, deviceType |-> {object.deviceType.s}]

\* onMounted up to its await: the step duration of the URL, the saved settings, the detected device
onMounted(a, actualStepDuration, currentDetectedType, throws) ==
    LET a1 == [a EXCEPT !.s = setStepDuration(@, actualStepDuration)]
        r == loadSettings(a1.st, FALSE, throws)
        savedSettings == [r.result EXCEPT !.deviceType = JStr(currentDetectedType)]
    IN  [a1 EXCEPT !.st = r.st, !.s = updateSettings(@, SettingsPartial(savedSettings)), !.mounted = 1]

\* session recovery restoring whatever loadSession returns
onMountedResumed_restoresAny(a, audioFails, t, ms, throws) ==
    LET a1 == IF audioFails
                  THEN [a EXCEPT !.s = updateSettings(@, [audioEnabled |-> {FALSE}, primaryColor |-> {}, deviceType |-> {}])]
                  ELSE a
        r == loadSession(a1.st, ms, FALSE, throws)
        a2 == [a1 EXCEPT !.st = r.st, !.mounted = 2]
    IN  IF r.result # <<>>
            THEN LET savedSession == r.result[1]
                     a3 == [a2 EXCEPT !.s = restoreSession(@, [currentStep |-> {savedSession.currentStep},
                                                               timeRemaining |-> {savedSession.timeRemaining},
                                                               status |-> {savedSession.status},
                                                               settings |-> {SettingsPartial(savedSession.settings)}])]
                 IN  IF savedSession.status = "active" THEN startTimer(a3, t) ELSE a3
            ELSE a2

\* onMounted after audioService.initialize() settled: session recovery
onMountedResumed(a, audioFails, t, ms, throws) ==
    LET a1 == IF audioFails
                  THEN [a EXCEPT !.s = updateSettings(@, [audioEnabled |-> {FALSE}, primaryColor |-> {}, deviceType |-> {}])]
                  ELSE a
        r == loadSession(a1.st, ms, FALSE, throws)
        a2 == [a1 EXCEPT !.st = r.st, !.mounted = 2]
    IN  IF r.result # <<>> /\ (r.result[1].status = "active" \/ r.result[1].status = "paused")
            THEN LET savedSession == r.result[1]
                     a3 == [a2 EXCEPT !.s = restoreSession(@, [currentStep |-> {savedSession.currentStep},
                                                               timeRemaining |-> {savedSession.timeRemaining},
                                                               status |-> {savedSession.status},
                                                               settings |-> {SettingsPartial(savedSession.settings)}])]
                 IN  IF savedSession.status = "active" THEN startTimer(a3, t) ELSE a3
            ELSE a2

(***************************************************************************)
(* The application's state machine: the component is mounted, the user      *)
(* presses the buttons the status enables, the page is hidden and shown,    *)
(* the browser runs frames, the audio service settles and the clock         *)
(* advances.  Every handler is followed by the status watcher.              *)
(***************************************************************************)
\* Date.now() when the page is loaded
LoadTime == 3 * HourMs

\* what localStorage holds when the page is loaded: nothing, a session that is
\* paused, running, run out, transitioning, out of range or too old, and settings with audio off
AppStorages ==
    LET quiet == JSONstringify([EmptyObject EXCEPT !.audioEnabled = JBool(FALSE), !.primaryColor = JStr("#2cace2"), !.deviceType = JStr("desktop")])
        M(a, c) == (SETTINGS_KEY :> a) @@ (BACKUP_KEY :> a) @@ (SESSION_KEY :> c)
    IN  {M({}, {}),
         M({quiet}, {}),
         M({}, {SessionText(JNum(3), JNum(1), JStr("paused"), JNum(LoadTime))}),
         M({}, {SessionText(JNum(TOTAL_PRAYER_STEPS - 2), JNum(1), JStr("active"), JNum(LoadTime))}),
         M({quiet}, {SessionText(JNum(TOTAL_PRAYER_STEPS - 1), JNum(0), JStr("active"), JNum(LoadTime))}),
         M({}, {SessionText(JNum(3), JNum(1), JStr("transitioning"), JNum(LoadTime))}),
         M({}, {SessionText(JNum(15), JNum(1), JStr("active"), JNum(LoadTime))}),
         M({}, {SessionText(JNum(3), JNum(1), JStr("paused"), JNum(0))})}

InitApp ==
    /\ StoreInit
    /\ TimerInit
    /\ ObsInit
    /\ AppVarsInit
    /\ isStorageAvailable = TRUE
    /\ localStorage \in AppStorages
    /\ memoryStorage = [k \in StorageKeys |-> {}]
    /\ dateNow = LoadTime
    /\ loaded = <<>>
    /\ lastSave = <<>>

\* the store, the engine and the service take the fields of a; k: 1 for an event of the user
CommitApp(a, op, arg, k) ==
    /\ a.inFlight <= MaxInFlight
    /\ presses + k <= MaxPresses
    /\ presses' = presses + k
    /\ currentStep' = a.s.currentStep
    /\ timeRemaining' = a.s.timeRemaining
    /\ status' = a.s.status
    /\ settings' = a.s.settings
    /\ stepDuration' = a.s.stepDuration
    /\ startTime' = a.e.startTime
    /\ pausedTime' = a.e.pausedTime
    /\ duration' = a.e.duration
    /\ remainingTime' = a.e.remainingTime
    /\ animationFrameId' = a.e.animationFrameId
    /\ isRunning' = a.e.isRunning
    /\ isPaused' = a.e.isPaused
    /\ onTick' = a.e.onTick
    /\ onComplete' = a.e.onComplete
    /\ pendingFrames' = a.e.pendingFrames
    /\ isStorageAvailable' = a.st.isStorageAvailable
    /\ localStorage' = a.st.localStorage
    /\ memoryStorage' = a.st.memoryStorage
    /\ inFlight' = a.inFlight
    /\ mounted' = a.mounted
    /\ lastOp' = op
    /\ lastArg' = arg
    /\ UNCHANGED <<now, dateNow, quotaExceeded, storeObs, timerObs, storageObs>>

Mounted ==
    /\ mounted = 0
    /\ \E d \in 1 .. MaxStepSeconds :
          CommitApp(statusWatcher(onMounted(App, d, "mobile", quotaExceeded), status, dateNow, quotaExceeded), "onMounted", <<d>>, 0)

MountedResumed ==
    /\ mounted = 1
    /\ \E audioFails \in BOOLEAN :
          CommitApp(statusWatcher(onMountedResumed(App, audioFails, now, dateNow, quotaExceeded), status, dateNow, quotaExceeded), "recover", <<>>, 0)

\* the play/pause button emits play when the status is idle or paused
Play ==
    /\ mounted >= 1
    /\ status \in {"idle", "paused"}
    /\ CommitApp(statusWatcher(handlePlay(App, now, dateNow, quotaExceeded), status, dateNow, quotaExceeded), "play", <<>>, 1)

\* and pause when it is active
Pause ==
    /\ mounted >= 1
    /\ status = "active"
    /\ CommitApp(statusWatcher(handlePause(App, now, dateNow, quotaExceeded), status, dateNow, quotaExceeded), "pause", <<>>, 1)

\* the next button is disabled when the cycle is completed
PressNext ==
    /\ mounted >= 1
    /\ status # "completed"
    /\ CommitApp(statusWatcher(handleNext(App, now), status, dateNow, quotaExceeded), "next", <<>>, 1)

Restart ==
    /\ mounted >= 1
    /\ CommitApp(statusWatcher(handleRestart(App), status, dateNow, quotaExceeded), "restart", <<>>, 1)

\* the listener is added at the end of onMounted
VisibilityChange ==
    /\ mounted = 2
    /\ \E hidden \in BOOLEAN :
          CommitApp(handleVisibilityChange(App, hidden, dateNow, quotaExceeded), "visibilitychange", <<hidden>>, 1)

\* the browser runs a pending frame of the engine
Frame ==
    \E id \in pendingFrames :
        CommitApp(statusWatcher(timerService(App, animationFrame(Timer, id, now), now), status, dateNow, quotaExceeded), "frame", <<>>, 0)

\* the audio service settles and a waiting completion handler goes on
AudioSettles ==
    /\ inFlight > 0
    /\ CommitApp(statusWatcher(completeAndContinue([App EXCEPT !.inFlight = @ - 1], now), status, dateNow, quotaExceeded), "audio", <<>>, 0)

\* the quota of localStorage runs out
QuotaFills ==
    /\ ~quotaExceeded
    /\ quotaExceeded' = TRUE
    /\ lastOp' = "quota"
    /\ lastArg' = <<>>
    /\ UNCHANGED <<storeVars, storeObs, timerVars, timerObs, storageVars, storageObs, inFlight, mounted, presses>>

\* a second goes by
SecondPasses ==
    /\ now < MaxSeconds * MS_PER_SECOND
    /\ now' = now + MS_PER_SECOND
    /\ lastOp' = "second"
    /\ lastArg' = <<>>
    /\ UNCHANGED <<storeVars, storeObs, startTime, pausedTime, duration, remainingTime, animationFrameId, isRunning, isPaused,
                   onTick, onComplete, pendingFrames, timerObs, storageVars, storageObs, appVars>>

NextApp ==
    \/ Mounted
    \/ MountedResumed
    \/ Play
    \/ Pause
    \/ PressNext
    \/ Restart
    \/ VisibilityChange
    \/ Frame
    \/ AudioSettles
    \/ QuotaFills
    \/ SecondPasses

SpecApp == InitApp /\ [][NextApp]_vars


(***************************************************************************)
(* A cycle left to itself: the page is loaded, the user presses Play and    *)
(* nothing else.  requestAnimationFrame runs a frame well within a second,  *)
(* so the frame of one reading of the clock has run before the next         *)
(* reading; the clock is read while a countdown runs.  Recovery after Play  *)
(* starts the first countdown again, hence the thirteenth step of time.     *)
(***************************************************************************)
SecondCounted ==
    /\ isRunning /\ ~isPaused
    /\ remainingTime = Max(0, duration - (now - startTime))
    /\ now < (TOTAL_PRAYER_STEPS + 1) * MaxStepSeconds * MS_PER_SECOND
    /\ now' = now + MS_PER_SECOND
    /\ lastOp' = "second"
    /\ lastArg' = <<>>
    /\ UNCHANGED <<storeVars, storeObs, startTime, pausedTime, duration, remainingTime, animationFrameId, isRunning, isPaused,
                   onTick, onComplete, pendingFrames, timerObs, storageVars, storageObs, appVars>>

NextCycle ==
    \/ Mounted
    \/ MountedResumed
    \/ Play
    \/ Frame
    \/ AudioSettles
    \/ SecondCounted

\* weak fairness of Frame, which is enabled when a frame is pending
FramesKeepFiring == []<>(pendingFrames = {}) \/ []<><<lastOp' = "frame">>_vars

\* weak fairness of AudioSettles, which is enabled when a completion handler waits
AudioKeepsSettling == []<>(inFlight = 0) \/ []<><<lastOp' = "audio">>_vars

\* frames keep firing, the clock advances and the audio service settles
SpecCycle == InitApp /\ [][NextCycle]_vars /\ WF_vars(SecondCounted) /\ FramesKeepFiring /\ AudioKeepsSettling

\* the session string the service reads back ({}: none)
ReadSession == getItem(StorageService, SESSION_KEY, FALSE)

\* C31: when a handler and the status watcher after it have changed the
\* status, a session record exists if the new status is active or paused and
\* none exists if it is idle or completed.
C31_RecordFollowsStatus ==
    [][status' # status =>
          /\ status' \in {"active", "paused"} => ReadSession' # {}
          /\ status' \in {"idle", "completed"} => ReadSession' = {}]_vars

\* the engine counts down a whole step
CountsDownStep == isRunning /\ ~isPaused /\ duration = Thousandths(stepDuration) /\ timeRemaining = stepDuration

\* the frame about to run finds the countdown at zero
FrameCompletes == isRunning /\ ~isPaused /\ now - startTime >= duration

\* C32: outside session recovery the step index grows only by one, only in a
\* user Next or in a completion handler, and the engine then counts down the
\* new step; a completion handler advances exactly once (at the last step it
\* completes the cycle), whatever the user pressed while it waited, and the
\* frame that completes the countdown advances at once only with audio off.
C32_OneStepPerCompletion ==
    [][/\ currentStep' > currentStep /\ lastOp' # "recover" =>
             /\ currentStep' = currentStep + 1
             /\ lastOp' \in {"next", "audio", "frame"}
             /\ CountsDownStep'
       /\ lastOp' = "audio" =>
             /\ inFlight' = inFlight - 1
             /\ IF currentStep < LastStep
                    THEN currentStep' = currentStep + 1
                    ELSE currentStep' = currentStep /\ status' = "completed"
       /\ lastOp' = "frame" =>
             IF FrameCompletes
                 THEN IF settings.audioEnabled
                          THEN currentStep' = currentStep /\ inFlight' = inFlight + 1
                          ELSE /\ inFlight' = inFlight
                               /\ IF currentStep < LastStep
                                      THEN currentStep' = currentStep + 1
                                      ELSE currentStep' = currentStep /\ status' = "completed"
                 ELSE currentStep' = currentStep /\ inFlight' = inFlight]_vars

\* a completion handler went on while another one waits: the user pressed
\* Next while the first waited, and the countdown that Next started ran out too
C32_Witness == lastOp = "audio" /\ inFlight = 1 /\ currentStep = 2 /\ CountsDownStep

\* the fresh record of a transitioning session is what the service reads back
TransitioningStored == \E v \in ReadSession : v.kind = "object" /\ isValidSessionData(v.doc) /\ v.doc.status = JStr("transitioning")

\* C35: the status is never transitioning, whatever the handlers do and
\* whatever record loadSession accepts at startup.
C35_NeverTransitioning == status # "transitioning"

\* recovery found a valid transitioning record and left the store idle
C35_Witness == lastOp = "recover" /\ TransitioningStored /\ status = "idle"

\* C36: a visibility change leaves the store's currentStep, timeRemaining and
\* status and the engine's isRunning, isPaused, startTime and duration as they
\* were; when the page is hidden with the status active or paused it writes
\* the store's snapshot under the session key, and otherwise writes nothing.
C36_VisibilityOnlySaves ==
    [][lastOp' = "visibilitychange" =>
          /\ UNCHANGED <<currentStep, timeRemaining, status, settings, stepDuration, inFlight>>
          /\ UNCHANGED <<isRunning, isPaused, startTime, pausedTime, duration, remainingTime, pendingFrames>>
          /\ \A k \in StorageKeys \ {SESSION_KEY} : localStorage'[k] = localStorage[k] /\ memoryStorage'[k] = memoryStorage[k]
          /\ IF lastArg'[1] /\ status \in {"active", "paused"}
                 THEN LET snapshot == SessionText(JNum(currentStep), JNum(timeRemaining), JStr(status), JNum(dateNow))
                      IN  IF quotaExceeded
                              THEN memoryStorage'[SESSION_KEY] = {snapshot} /\ localStorage' = localStorage
                              ELSE localStorage'[SESSION_KEY] = {snapshot} /\ memoryStorage' = memoryStorage
                 ELSE UNCHANGED <<localStorage, memoryStorage>>]_vars

\* the page was hidden while the countdown ran, and the snapshot was written
C36_Witness ==
    /\ lastOp = "visibilitychange"
    /\ lastArg = <<TRUE>>
    /\ status = "active"
    /\ isRunning /\ ~isPaused /\ pendingFrames # {}
    /\ ReadSession = {SessionText(JNum(currentStep), JNum(timeRemaining), JStr(status), JNum(dateNow))}

\* C37: whenever the status is active and no completion handler waits, the
\* engine is running and not paused.
C37_ActiveMeansCounting == status = "active" /\ inFlight = 0 => isRunning /\ ~isPaused

\* C38: while the store is paused or idle, a step that is not a button of the
\* user (a completion handler going on, a frame, the clock, the page hidden or
\* shown) changes neither the status nor the step index and does not set the
\* engine counting.
C38_PauseAndRestartHold ==
    [][/\ status \in {"paused", "idle"}
       /\ mounted = 2
       /\ lastOp' \in {"audio", "frame", "second", "quota", "visibilitychange"}
       => /\ status' = status
          /\ currentStep' = currentStep
          /\ (isRunning' /\ ~isPaused') => (isRunning /\ ~isPaused)]_vars

\* C39: whenever the status is active or paused and no handler is under way,
\* the session record holds the store's currentStep (stated here for a
\* localStorage whose quota has not run out).
C39_StoredStepIsCurrent ==
    /\ status \in {"active", "paused"}
    /\ mounted = 2
    /\ inFlight = 0
    /\ ~quotaExceeded
    => \E v \in ReadSession : v.kind = "object" /\ v.doc.currentStep = JNum(currentStep)

\* a countdown runs, or its completion handler waits for the audio service
Counting == (isRunning /\ ~isPaused) \/ inFlight > 0

\* C33: left to itself with frames firing, the clock advancing and the audio
\* settling, a cycle that counts down step k < 11 gets to count down step
\* k + 1, the one that counts down step 11 gets completed, the step index
\* moves by one at a time, and a completed cycle has a stopped engine, no
\* pending frame and no waiting handler, and stays as it is.
C33_CycleRunsToCompletion ==
    /\ \A k \in 0 .. (LastStep - 1) :
          (status = "active" /\ currentStep = k /\ Counting) ~> (status = "active" /\ currentStep = k + 1 /\ Counting)
    /\ (status = "active" /\ currentStep = LastStep /\ Counting) ~> (status = "completed")
    /\ [](status = "completed" => ~isRunning /\ pendingFrames = {} /\ inFlight = 0)
    /\ [][/\ lastOp' # "recover" => currentStep' \in {currentStep, currentStep + 1}
          /\ status = "completed" => UNCHANGED <<status, currentStep, timeRemaining, isRunning, remainingTime>>]_vars

====
